---- MODULE Spec2Model ----
(***************************************************************************)
(* Model of the Fireworks AI cost agent: the run orchestrator of           *)
(* src/server.py (run lock, last-result snapshot, interval scheduler, the  *)
(* /trigger endpoint), the diff of src/agent/compare.py and the textual    *)
(* JSON patch of src/agent/github_pr.py.                                   *)
(*                                                                         *)
(* Text is modelled character by character: a Python str is a sequence of  *)
(* one-character strings, so that slicing, rfind, rstrip, replace and the  *)
(* JSON grammar are computed as the code computes them.                    *)
(***************************************************************************)
EXTENDS Integers, Sequences, FiniteSets, TLC

VARIABLES
    is_running,          \* state.is_running                       (server.py:44)
    last_run,            \* state.last_run: <<>> is None, <<t>> a time
    last_result,         \* state.last_result: <<>> is None, <<r>> a RunResult dump
    next_scheduled_run,  \* state.next_scheduled_run: <<>> or <<t>>
    now,                 \* the wall clock, in ticks of 12 hours
    next_fire,           \* the interval trigger's next fire time; <<>> before startup
    pc,                  \* per task: where its coroutine is suspended
    local,               \* per task: the locals of its run_agent frame
    outcome,             \* the last finished call: <<>> or <<what it returned or raised>>
    sched_done,          \* completion time of the last scheduled_run: <<>> or <<t>>
    fired_at,            \* the last firing of the job: <<>> or <<[at, prev_done]>>
    upstream,            \* the upstream repository: branches, commits, pull requests
    budget,              \* trigger requests the environment may still send
    models,              \* append_models_to_json / compare_models: argument
    original_content,    \* append_models_to_json: argument
    updated_content,     \* append_models_to_json: <<>> before the call, then its outcome
    litellm_data,        \* compare_models: argument (the reference keys)
    missing_models,      \* compare_models: <<>> before the call, then <<result>>
    fw_model,            \* to_litellm_format: <<>> or <<self>>
    litellm_format,      \* to_litellm_format: <<>> before the call, then <<result>>
    pricing_input,       \* parse_pricing: argument (pricing_text)
    pricing,             \* parse_pricing: <<>> before the call, then its outcome
    still_missing        \* compare_models against the patched document: <<>> or <<result>>

vars == <<is_running, last_run, last_result, next_scheduled_run, now, next_fire,
          pc, local, outcome, sched_done, fired_at, upstream, budget,
          models, original_content, updated_content, litellm_data, missing_models,
          fw_model, litellm_format, pricing_input, pricing, still_missing>>

serverVars == <<is_running, last_run, last_result, next_scheduled_run, now,
                next_fire, pc, local, outcome, sched_done, fired_at,
                upstream, budget>>

convVars == <<fw_model, litellm_format, pricing_input, pricing, still_missing>>

fnVars == <<models, original_content, updated_content, litellm_data, missing_models,
            convVars>>

None == <<>>
Some(v) == <<v>>

-----------------------------------------------------------------------------
(* Python str operations                                                   *)

\* A string literal as the sequence of its characters.
Chars(str) == [i \in 1..Len(str) |-> SubSeq(str, i, i)]

\* str.isspace() for one character (the ASCII whitespace of the alphabet).
IsSpace(c) == c \in {" ", "\n", "\t", "\r"}

\* s[:k] with Python's meaning of a negative k.
SliceTo(s, k) ==
    LET n == Len(s)
        e == IF k < 0 THEN (IF n + k < 0 THEN 0 ELSE n + k)
                      ELSE (IF k > n THEN n ELSE k)
    IN SubSeq(s, 1, e)

\* s.rfind(c): the 0-based index of the last c, -1 when there is none.
RFind(s, c) ==
    LET hits == {i \in 1..Len(s) : s[i] = c}
    IN IF hits = {} THEN -1
       ELSE (CHOOSE i \in hits : \A j \in hits : j <= i) - 1

\* s.rstrip()
RECURSIVE RStrip(_)
RStrip(s) ==
    IF s = <<>> THEN s
    ELSE IF IsSpace(s[Len(s)]) THEN RStrip(SubSeq(s, 1, Len(s) - 1))
    ELSE s

\* s.strip()
RECURSIVE LStrip(_)
LStrip(s) ==
    IF s = <<>> THEN s
    ELSE IF IsSpace(s[1]) THEN LStrip(Tail(s))
    ELSE s

Strip(s) == LStrip(RStrip(s))

\* s.startswith(p), s.endswith(p)
StartsWith(s, p) == Len(p) <= Len(s) /\ SubSeq(s, 1, Len(p)) = p
EndsWith(s, p) == Len(p) <= Len(s) /\ SubSeq(s, Len(s) - Len(p) + 1, Len(s)) = p

\* sub in s
Contains(s, sub) ==
    \E i \in 1..(Len(s) - Len(sub) + 1) : SubSeq(s, i, i + Len(sub) - 1) = sub

\* s.replace(old, new): every non-overlapping occurrence, left to right.
RECURSIVE Replace(_, _, _)
Replace(s, old, new) ==
    IF Len(s) < Len(old) \/ old = <<>> THEN s
    ELSE IF SubSeq(s, 1, Len(old)) = old
         THEN new \o Replace(SubSeq(s, Len(old) + 1, Len(s)), old, new)
         ELSE <<s[1]>> \o Replace(Tail(s), old, new)

UpperCase == Chars("ABCDEFGHIJKLMNOPQRSTUVWXYZ")
LowerCase == Chars("abcdefghijklmnopqrstuvwxyz")

LowerChar(c) ==
    IF \E i \in 1..26 : UpperCase[i] = c
    THEN LowerCase[CHOOSE i \in 1..26 : UpperCase[i] = c]
    ELSE c

\* s.lower()
Lower(s) == [i \in 1..Len(s) |-> LowerChar(s[i])]

\* str(n) of a non-negative int.
RECURSIVE IntText(_)
Digit(d) == Chars("0123456789")[d + 1]
IntText(n) == IF n < 10 THEN <<Digit(n)>> ELSE IntText(n \div 10) \o <<Digit(n % 10)>>

-----------------------------------------------------------------------------
(* json.loads: the grammar of Python's json decoder over char sequences.   *)
(* Every parser takes a 1-based position and returns the position after    *)
(* what it parsed, or 0 when the text is rejected there.                   *)

At(s, i) == IF i >= 1 /\ i <= Len(s) THEN s[i] ELSE ""

IsDigit(c) == c \in {"0", "1", "2", "3", "4", "5", "6", "7", "8", "9"}

RECURSIVE SkipWs(_, _)
SkipWs(s, i) == IF IsSpace(At(s, i)) THEN SkipWs(s, i + 1) ELSE i

RECURSIVE SkipDigits(_, _)
SkipDigits(s, i) == IF IsDigit(At(s, i)) THEN SkipDigits(s, i + 1) ELSE i

\* From inside a string literal (after its opening quote) to after its closing quote.
RECURSIVE ScanString(_, _)
ScanString(s, j) ==
    LET c == At(s, j)
    IN IF c = "" THEN 0
       ELSE IF c = "\"" THEN j + 1
       ELSE IF c = "\\"
            THEN (IF At(s, j + 1) \in {"\"", "\\", "/", "b", "f", "n", "r", "t"}
                  THEN ScanString(s, j + 2) ELSE 0)
       ELSE IF c \in {"\n", "\t", "\r"} THEN 0
       ELSE ScanString(s, j + 1)

\* -?(0|[1-9][0-9]*)(\.[0-9]+)?([eE][-+]?[0-9]+)?
ParseNumber(s, i) ==
    LET j0 == IF At(s, i) = "-" THEN i + 1 ELSE i
        j1 == IF At(s, j0) = "0" THEN j0 + 1
              ELSE IF IsDigit(At(s, j0)) THEN SkipDigits(s, j0)
              ELSE 0
        j2 == IF At(s, j1) = "." /\ IsDigit(At(s, j1 + 1))
              THEN SkipDigits(s, j1 + 1) ELSE j1
        k  == IF At(s, j2 + 1) \in {"+", "-"} THEN j2 + 2 ELSE j2 + 1
        j3 == IF At(s, j2) \in {"e", "E"} /\ IsDigit(At(s, k))
              THEN SkipDigits(s, k) ELSE j2
    IN IF j1 = 0 THEN 0 ELSE j3

Literal(s, i, word) ==
    IF i + Len(word) - 1 <= Len(s) /\ SubSeq(s, i, i + Len(word) - 1) = word
    THEN i + Len(word) ELSE 0

RECURSIVE ParseValue(_, _), ParseMembers(_, _), ParseElements(_, _)

ParseObject(s, i) ==
    LET j == SkipWs(s, i + 1)
    IN IF At(s, j) = "}" THEN j + 1 ELSE ParseMembers(s, j)

ParseArray(s, i) ==
    LET j == SkipWs(s, i + 1)
    IN IF At(s, j) = "]" THEN j + 1 ELSE ParseElements(s, j)

ParseValue(s, i) ==
    LET c == At(s, i)
    IN IF c = "\"" THEN ScanString(s, i + 1)
       ELSE IF c = "{" THEN ParseObject(s, i)
       ELSE IF c = "[" THEN ParseArray(s, i)
       ELSE IF c = "n" THEN Literal(s, i, Chars("null"))
       ELSE IF c = "t" THEN Literal(s, i, Chars("true"))
       ELSE IF c = "f" THEN Literal(s, i, Chars("false"))
       ELSE IF c = "-" \/ IsDigit(c) THEN ParseNumber(s, i)
       ELSE 0

\* "key" : value , "key" : value ... } from the first key's opening quote.
ParseMembers(s, j) ==
    IF At(s, j) # "\"" THEN 0
    ELSE LET e == ScanString(s, j + 1)
             k == SkipWs(s, e)
             v == ParseValue(s, SkipWs(s, k + 1))
             m == SkipWs(s, v)
         IN IF e = 0 THEN 0
            ELSE IF At(s, k) # ":" THEN 0
            ELSE IF v = 0 THEN 0
            ELSE IF At(s, m) = "}" THEN m + 1
            ELSE IF At(s, m) = "," THEN ParseMembers(s, SkipWs(s, m + 1))
            ELSE 0

ParseElements(s, j) ==
    LET v == ParseValue(s, j)
        m == SkipWs(s, v)
    IN IF v = 0 THEN 0
       ELSE IF At(s, m) = "]" THEN m + 1
       ELSE IF At(s, m) = "," THEN ParseElements(s, SkipWs(s, m + 1))
       ELSE 0

\* TRUE iff json.loads(s) returns (does not raise JSONDecodeError).
JsonLoads(s) ==
    LET e == ParseValue(s, SkipWs(s, 1))
    IN e # 0 /\ SkipWs(s, e) = Len(s) + 1

\* The text of a JSON string literal's body, unescaped.
RECURSIVE Unescape(_)
Unescape(b) ==
    IF b = <<>> THEN b
    ELSE IF b[1] = "\\" /\ Len(b) >= 2
         THEN <<b[2]>> \o Unescape(SubSeq(b, 3, Len(b)))
         ELSE <<b[1]>> \o Unescape(Tail(b))

\* The keys of the members that start at j, in document order.
RECURSIVE MemberKeys(_, _)
MemberKeys(s, j) ==
    IF At(s, j) # "\"" THEN <<>>
    ELSE LET e == ScanString(s, j + 1)
             k == SkipWs(s, e)
             v == ParseValue(s, SkipWs(s, k + 1))
             m == SkipWs(s, v)
         IN <<Unescape(SubSeq(s, j + 1, e - 2))>> \o
            (IF At(s, m) = "," THEN MemberKeys(s, SkipWs(s, m + 1)) ELSE <<>>)

\* set(json.loads(s).keys()) of a text that parses as an object.
JsonKeys(s) ==
    LET ks == MemberKeys(s, SkipWs(s, SkipWs(s, 1) + 1))
    IN {ks[i] : i \in 1..Len(ks)}

-----------------------------------------------------------------------------
(* FireworksModel and its conversion to the LiteLLM price object.          *)
(* A price is None or Some(c), c the price in cents per million units; a   *)
(* per-token cost is a count of 1e-8 dollars, so the division by 1_000_000 *)
(* and the rounding to 12 places are exact on every price of the model.    *)

FireworksModel(name, model_id, input_cost, output_cost, unified_cost, ctx, type) ==
    [name |-> name, model_id |-> model_id,
     input_cost_per_million |-> input_cost,
     output_cost_per_million |-> output_cost,
     unified_cost_per_million |-> unified_cost,
     context_window |-> ctx, model_type |-> type]

\* mode_map.get(self.model_type, "chat")
ModeMap(model_type) ==
    CASE model_type = "LLM" -> "chat"
      [] model_type = "Vision" -> "chat"
      [] model_type = "Image" -> "image_generation"
      [] model_type = "Audio" -> "audio_transcription"
      [] model_type = "Embedding" -> "embedding"
      [] model_type = "Reranker" -> "rerank"
      [] OTHER -> "chat"

\* The mode of the category label alone.
ModeByLabel(self) == ModeMap(self.model_type)

\* The keyword override of the mode, in the code's order.
Mode(self) ==
    LET name_lower == Lower(self.name)
        id_lower == Lower(self.model_id)
    IN IF Contains(name_lower, Chars("rerank")) \/ Contains(id_lower, Chars("rerank"))
       THEN "rerank"
       ELSE IF Contains(name_lower, Chars("embed")) \/ Contains(id_lower, Chars("embed"))
       THEN "embedding"
       ELSE IF Contains(name_lower, Chars("whisper")) \/ Contains(id_lower, Chars("asr"))
       THEN "audio_transcription"
       ELSE ModeMap(self.model_type)

DefaultContext == 4096

\* A JSON number as json.dumps writes it: an int, or a float of e8 * 1e-8.
IntNum(n) == [kind |-> "int", n |-> n]
FloatNum(e8) == [kind |-> "float", n |-> e8]

\* round(price / 1_000_000, 12) if price else 0  (a price that is None or 0.0 is falsy)
CostOrZero(price) ==
    IF price # None /\ price[1] # 0 THEN FloatNum(price[1]) ELSE IntNum(0)

ToLitellmFormat(self) ==
    LET unified == self.unified_cost_per_million
        input_cost == IF unified # None THEN FloatNum(unified[1])
                      ELSE CostOrZero(self.input_cost_per_million)
        output_cost == IF unified # None THEN FloatNum(unified[1])
                       ELSE CostOrZero(self.output_cost_per_million)
        ctx == IF self.context_window # None /\ self.context_window[1] # 0
               THEN self.context_window[1] ELSE DefaultContext
    IN [max_tokens |-> ctx, max_input_tokens |-> ctx, max_output_tokens |-> ctx,
        input_cost_per_token |-> input_cost, output_cost_per_token |-> output_cost,
        litellm_provider |-> "fireworks_ai", mode |-> Mode(self)]

-----------------------------------------------------------------------------
(* json.dumps(obj, indent=4), for the shape append_models_to_json builds:  *)
(* a dict from key to price object.                                        *)

RECURSIVE StripZeros(_)
StripZeros(d) ==
    IF Len(d) > 1 /\ d[Len(d)] = "0" THEN StripZeros(SubSeq(d, 1, Len(d) - 1)) ELSE d

\* repr() of the float e8 * 1e-8, for 0 <= e8 < 10000 (below 1e-4: scientific).
FloatText(e8) ==
    IF e8 = 0 THEN Chars("0.0")
    ELSE LET d == IntText(e8)
             m == StripZeros(d)
             frac == IF Len(m) > 1 THEN <<".">> \o Tail(m) ELSE <<>>
         IN <<m[1]>> \o frac \o Chars("e-0") \o IntText(8 - (Len(d) - 1))

NumText(x) == IF x.kind = "int" THEN IntText(x.n) ELSE FloatText(x.n)

\* A str as a JSON string literal (py_encode_basestring_ascii on the alphabet).
RECURSIVE Escape(_)
Escape(s) ==
    IF s = <<>> THEN s
    ELSE (CASE s[1] = "\"" -> Chars("\\\"")
            [] s[1] = "\\" -> Chars("\\\\")
            [] s[1] = "\n" -> Chars("\\n")
            [] s[1] = "\t" -> Chars("\\t")
            [] s[1] = "\r" -> Chars("\\r")
            [] OTHER -> <<s[1]>>) \o Escape(Tail(s))

QuoteStr(s) == <<"\"">> \o Escape(s) \o <<"\"">>

Indent4 == Chars("    ")
Indent8 == Chars("        ")

\* One price object at nesting level 1 of an indent=4 dump.
DumpsPriceObject(v) ==
    LET line(k, text, last) ==
            <<"\n">> \o Indent8 \o QuoteStr(Chars(k)) \o Chars(": ") \o text
            \o (IF last THEN <<>> ELSE <<",">>)
    IN <<"{">>
       \o line("max_tokens", IntText(v.max_tokens), FALSE)
       \o line("max_input_tokens", IntText(v.max_input_tokens), FALSE)
       \o line("max_output_tokens", IntText(v.max_output_tokens), FALSE)
       \o line("input_cost_per_token", NumText(v.input_cost_per_token), FALSE)
       \o line("output_cost_per_token", NumText(v.output_cost_per_token), FALSE)
       \o line("litellm_provider", QuoteStr(Chars(v.litellm_provider)), FALSE)
       \o line("mode", QuoteStr(Chars(v.mode)), TRUE)
       \o <<"\n">> \o Indent4 \o <<"}">>

\* The items of a dict (a sequence of <<key, value>>), comma-separated.
RECURSIVE DumpsItems(_)
DumpsItems(d) ==
    IF d = <<>> THEN <<>>
    ELSE <<"\n">> \o Indent4 \o QuoteStr(d[1][1]) \o Chars(": ")
         \o DumpsPriceObject(d[1][2])
         \o (IF Len(d) > 1 THEN <<",">> ELSE <<>>) \o DumpsItems(Tail(d))

JsonDumps(d) ==
    IF d = <<>> THEN Chars("{}")
    ELSE <<"{">> \o DumpsItems(d) \o Chars("\n}")

\* d[k] = v on an insertion-ordered dict: an existing key keeps its place.
DictPut(d, k, v) ==
    IF \E i \in 1..Len(d) : d[i][1] = k
    THEN [i \in 1..Len(d) |-> IF d[i][1] = k THEN <<k, v>> ELSE d[i]]
    ELSE Append(d, <<k, v>>)

-----------------------------------------------------------------------------
(* append_models_to_json (src/agent/github_pr.py)                          *)

KeyPrefix == Chars("fireworks_ai/accounts/fireworks/models/")

\* new_entries[key] = m.to_litellm_format() for m in models
RECURSIVE NewEntries(_, _)
NewEntries(ms, d) ==
    IF ms = <<>> THEN d
    ELSE NewEntries(Tail(ms),
                    DictPut(d, KeyPrefix \o ms[1].model_id, ToLitellmFormat(ms[1])))

\* json.dumps(new_entries, indent=4)[1:-1]
NewEntriesStr(ms) ==
    LET text == JsonDumps(NewEntries(ms, <<>>))
    IN SubSeq(text, 2, Len(text) - 1)

\* A slip: .strip() for .rstrip(), which also drops the document's leading whitespace.
ContentBeforeStripped(original) == Strip(SliceTo(original, RFind(original, "}")))

\* original_content[:last_brace].rstrip()
ContentBefore(original) == RStrip(SliceTo(original, RFind(original, "}")))

\* if content_before.endswith("}")
NeedsComma(content_before) == EndsWith(content_before, <<"}">>)

\* updated_content, before it is validated.
SplicedContent(ms, original) ==
    LET content_before == ContentBefore(original)
    IN IF NeedsComma(content_before)
       THEN content_before \o <<",">> \o NewEntriesStr(ms) \o Chars("\n}")
       ELSE content_before \o NewEntriesStr(ms) \o Chars("\n}")

\* What the call does: returns updated_content, or json.loads raises.
Returned(v) == [raised |-> FALSE, value |-> v]
Raised(e) == [raised |-> TRUE, error |-> e]

AppendModelsToJson(ms, original) ==
    LET updated == SplicedContent(ms, original)
    IN IF JsonLoads(updated) THEN Returned(updated) ELSE Raised("JSONDecodeError")

-----------------------------------------------------------------------------
(* parse_pricing (src/agent/browser_agent.py): re.search of each pattern   *)
(* over a char sequence. A character class followed by a character outside *)
(* it matches its longest run, so no pattern here backtracks. A matcher    *)
(* takes a 1-based position and returns the position after what it         *)
(* matched, or 0. The bullet and the middle dot are one element each.      *)

Bullet == "U+2022"
MiddleDot == "U+00B7"

IsPriceChar(c) == IsDigit(c) \/ c = "."

RECURSIVE SkipPriceChars(_, _)
SkipPriceChars(s, i) == IF IsPriceChar(At(s, i)) THEN SkipPriceChars(s, i + 1) ELSE i

\* \$([0-9.]+) at i: the position after the group, or 0.
PriceAt(s, i) ==
    IF At(s, i) = "$" /\ SkipPriceChars(s, i + 1) > i + 1
    THEN SkipPriceChars(s, i + 1) ELSE 0

\* The text of the group of a price that starts at i and ends before e.
PriceGroup(s, i, e) == SubSeq(s, i + 1, e - 1)

\* \$([0-9.]+)/M\s*<word> at i.
PerMillionAt(s, i, word) ==
    LET e == PriceAt(s, i)
        m == IF e = 0 THEN 0 ELSE Literal(s, e, Chars("/M"))
    IN IF m = 0 THEN 0 ELSE Literal(s, SkipWs(s, m), word)

\* \$([0-9.]+)/M\s*Input\s*[bullet or middle dot]\s*\$([0-9.]+)/M\s*Output at i:
\* the position of the second "$" paired with the position after the match.
InputOutputAt(s, i) ==
    LET a == PerMillionAt(s, i, Chars("Input"))
        b == IF a = 0 THEN 0 ELSE SkipWs(s, a)
        c == IF b # 0 /\ At(s, b) \in {Bullet, MiddleDot} THEN SkipWs(s, b + 1) ELSE 0
        d == IF c = 0 THEN 0 ELSE PerMillionAt(s, c, Chars("Output"))
    IN IF d = 0 THEN <<0, 0>> ELSE <<c, d>>

\* \$([0-9.]+)<unit> at i.
PerUnitAt(s, i, unit) ==
    LET e == PriceAt(s, i)
    IN IF e = 0 THEN 0 ELSE Literal(s, e, unit)

\* (\d+)\s*Context at i.
ContextAt(s, i) ==
    LET e == SkipDigits(s, i)
    IN IF e = i THEN 0 ELSE Literal(s, SkipWs(s, e), Chars("Context"))

InputOutputEnd(s, i) == InputOutputAt(s, i)[2]
TokensAt(s, i) == PerMillionAt(s, i, Chars("Token"))
ImageAt(s, i) == PerUnitAt(s, i, Chars("/Image"))
StepAt(s, i) == PerUnitAt(s, i, Chars("/Step"))

\* re.search: the leftmost position where the pattern matches, or 0.
Leftmost(hits) == IF hits = {} THEN 0 ELSE CHOOSE i \in hits : \A j \in hits : i <= j

SearchInputOutput(s) == Leftmost({i \in 1..Len(s) : InputOutputEnd(s, i) # 0})
SearchTokens(s) == Leftmost({i \in 1..Len(s) : TokensAt(s, i) # 0})
SearchImage(s) == Leftmost({i \in 1..Len(s) : ImageAt(s, i) # 0})
SearchStep(s) == Leftmost({i \in 1..Len(s) : StepAt(s, i) # 0})
SearchContext(s) == Leftmost({i \in 1..Len(s) : ContextAt(s, i) # 0})

DigitValue(c) == CHOOSE d \in 0..9 : Digit(d) = c

\* int(ds) of a run of digits.
RECURSIVE IntOf(_)
IntOf(ds) ==
    IF ds = <<>> THEN 0
    ELSE IntOf(SubSeq(ds, 1, Len(ds) - 1)) * 10 + DigitValue(ds[Len(ds)])

\* float(t) of a text of digits and dots: it raises ValueError unless t has
\* at most one dot and a digit. The value n / 10^k is kept exact as [n, k],
\* with no trailing zero in the fraction, so equal floats are equal records.
Float(t) ==
    LET dots == {i \in 1..Len(t) : t[i] = "."}
        dot == IF dots = {} THEN Len(t) + 1 ELSE CHOOSE i \in dots : TRUE
        frac == StripZeros(<<"0">> \o SubSeq(t, dot + 1, Len(t)))
        digits == SubSeq(t, 1, dot - 1) \o Tail(frac)
    IN IF Cardinality(dots) > 1 \/ Len(t) - Cardinality(dots) = 0
       THEN Raised("ValueError")
       ELSE Returned([n |-> IntOf(digits), k |-> Len(frac) - 1])

\* The price group of the match at i, converted.
PriceOf(s, i) == Float(PriceGroup(s, i, PriceAt(s, i)))

Pricing(input_cost, output_cost, unified_cost, context_window) ==
    [input_cost |-> input_cost, output_cost |-> output_cost,
     unified_cost |-> unified_cost, context_window |-> context_window]

\* The context window of parse_pricing.
ContextWindow(s) ==
    LET i == SearchContext(s)
    IN IF i = 0 THEN None ELSE Some(IntOf(SubSeq(s, i, SkipDigits(s, i) - 1)))

\* The costs with the per-token pattern tried whether or not the dual-price
\* pattern matched.
CostsNoElse(s) ==
    LET io == SearchInputOutput(s)
        tokens == SearchTokens(s)
    IN <<IF io # 0 THEN PriceOf(s, io) ELSE None,
         IF io # 0 THEN PriceOf(s, InputOutputAt(s, io)[1]) ELSE None,
         IF tokens # 0 THEN PriceOf(s, tokens) ELSE None>>

\* The three costs of parse_pricing as <<input, output, unified>>, each None,
\* Some(value) or the ValueError that float raised.
Costs(s) ==
    LET io == SearchInputOutput(s)
        tokens == SearchTokens(s)
        image == SearchImage(s)
        step == SearchStep(s)
    IN IF io # 0
       THEN <<PriceOf(s, io), PriceOf(s, InputOutputAt(s, io)[1]), None>>
       ELSE IF tokens # 0 THEN <<None, None, PriceOf(s, tokens)>>
       ELSE IF image # 0 THEN <<None, None, PriceOf(s, image)>>
       ELSE IF step # 0 THEN <<None, None, PriceOf(s, step)>>
       ELSE <<None, None, None>>

ParsePricing(pricing_text) ==
    LET costs == Costs(pricing_text)
        raised == {i \in 1..3 : costs[i] # None /\ costs[i].raised}
        value(c) == IF c = None THEN None ELSE Some(c.value)
    IN IF raised # {}
       THEN Raised("ValueError")
       ELSE Returned(Pricing(value(costs[1]), value(costs[2]), value(costs[3]),
                             ContextWindow(pricing_text)))

-----------------------------------------------------------------------------
(* compare_models (src/agent/compare.py); litellm_data is modelled by its  *)
(* set of keys, the only part of it the diff reads.                        *)

FireworksPrefix == Chars("fireworks_ai/")

GetFireworksModelsFromLitellm(keys) ==
    {Replace(key, FireworksPrefix, <<>>) : key \in {k \in keys : StartsWith(k, FireworksPrefix)}}

ModelIdVariations(model) ==
    <<model.model_id,
      Replace(model.model_id, <<"-">>, <<"_">>),
      Replace(model.model_id, <<"_">>, <<"-">>),
      Replace(Lower(model.name), <<" ">>, <<"-">>),
      Replace(Lower(model.name), <<" ">>, <<"_">>)>>

FoundIn(model, existing_ids) ==
    \E i \in 1..5 : ModelIdVariations(model)[i] \in existing_ids

CompareModels(scraped, keys) ==
    LET existing_ids == GetFireworksModelsFromLitellm(keys)
        Missing(model) == ~FoundIn(model, existing_ids)
    IN SelectSeq(scraped, Missing)

-----------------------------------------------------------------------------
(* Bounded inputs                                                          *)

MaxModels == 2      \* longest list of records handed to a function
MaxEntries == 2     \* most top-level entries of a reference document

\* Scraped records: identifiers are path segments (no "/"), names free text.
ModelPool ==
    <<FireworksModel(Chars("Llama V3"), Chars("Llama-V3"),
                     Some(45), Some(180), None, Some(262144), "LLM"),
      FireworksModel(Chars("M 1"), Chars("m_1"),
                     None, None, Some(20), None, "Embedding"),
      FireworksModel(Chars("Llama V3 lower"), Chars("llama-v3"),
                     None, None, None, None, "LLM"),
      FireworksModel(Chars("Zephyr"), Chars("zephyr"),
                     Some(0), Some(90), None, Some(4096), "Vision")>>

\* Lists of at most n records of the pool.
RECURSIVE ListsUpTo(_, _)
ListsUpTo(pool, n) ==
    IF n = 0 THEN {<<>>}
    ELSE LET shorter == ListsUpTo(pool, n - 1)
         IN shorter \cup {Append(l, pool[i]) : l \in shorter, i \in 1..Len(pool)}

DistinctIds(l) ==
    \A i, j \in 1..Len(l) : i # j => l[i].model_id # l[j].model_id

\* Keys a reference dataset may hold.
RefKeys ==
    <<Chars("fireworks_ai/m-1"),
      Chars("fireworks_ai/accounts/fireworks/models/llama-v3"),
      Chars("gpt-4"),
      Chars("fireworks_ai/llama-v3")>>

DocKey(i) == IF i <= Len(RefKeys) THEN RefKeys[i] ELSE Chars("k") \o IntText(i)

\* Texts of entry values: an object, a nested object, a number, a string, an array.
ValueTexts ==
    {Chars("{}"), Chars("{\"mode\": \"chat\"}"), Chars("1.5e-07"),
     Chars("\"}\""), Chars("[{}]")}

RECURSIVE JoinEntries(_, _)
JoinEntries(vals, i) ==
    IF i > Len(vals) THEN <<>>
    ELSE (IF i > 1 THEN Chars(",\n ") ELSE <<>>)
         \o QuoteStr(DocKey(i)) \o Chars(": ") \o vals[i] \o JoinEntries(vals, i + 1)

\* A document: lead { entries gap } trail
DocText(lead, vals, gap, trail) ==
    lead \o <<"{">> \o JoinEntries(vals, 1) \o gap \o <<"}">> \o trail

Docs ==
    {DocText(lead, vals, gap, trail) :
        lead \in {<<>>, <<" ">>},
        vals \in UNION {[1..n -> ValueTexts] : n \in 0..MaxEntries},
        gap \in {<<>>, <<" ">>, <<"\n">>},
        trail \in {<<>>, <<"\n">>}}

-----------------------------------------------------------------------------
(* The pure functions under bounded inputs                                 *)

IdleServer ==
    /\ is_running = FALSE /\ last_run = None /\ last_result = None
    /\ next_scheduled_run = None /\ now = 0 /\ next_fire = None
    /\ pc = <<>> /\ local = <<>> /\ outcome = None
    /\ sched_done = None /\ fired_at = None /\ upstream = <<>> /\ budget = 0

NoPricing == pricing_input = <<>> /\ pricing = None

NoConversion ==
    fw_model = None /\ litellm_format = None /\ NoPricing /\ still_missing = None

InitPatch ==
    /\ IdleServer /\ NoConversion
    /\ models \in ListsUpTo(SubSeq(ModelPool, 1, 2), MaxModels)
    /\ original_content \in Docs
    /\ updated_content = None
    /\ litellm_data = {} /\ missing_models = None

\* updated_content = append_models_to_json(models, original_content)
AppendCall ==
    /\ updated_content = None
    /\ updated_content' = Some(AppendModelsToJson(models, original_content))
    /\ UNCHANGED <<serverVars, models, original_content, litellm_data, missing_models,
                   convVars>>

SpecPatch == InitPatch /\ [][AppendCall]_vars

InitCompare ==
    /\ IdleServer /\ NoConversion
    /\ models \in {l \in ListsUpTo(ModelPool, MaxModels) : DistinctIds(l)}
    /\ litellm_data \in SUBSET {RefKeys[i] : i \in 1..Len(RefKeys)}
    /\ missing_models = None
    /\ original_content = <<>> /\ updated_content = None

\* missing_models = compare_models(models, litellm_data)
CompareCall ==
    /\ missing_models = None
    /\ missing_models' = Some(CompareModels(models, litellm_data))
    /\ UNCHANGED <<serverVars, models, original_content, updated_content, litellm_data,
                   convVars>>

SpecCompare == InitCompare /\ [][CompareCall]_vars

\* Display names, identifiers and category labels of scraped records, with
\* the override keywords alone, together, in either case, and absent.
ModelNames ==
    {Chars("Llama V3"), Chars("Nomic Embed Text"), Chars("BGE Reranker"),
     Chars("Whisper V3"), Chars("Rerank EMBED"), Chars("Whisper Embedding")}

ModelIds ==
    {Chars("llama-v3"), Chars("nomic-embed-text"), Chars("bge-rerank"),
     Chars("asr-large"), Chars("embed-reranker"), Chars("ASR-Embed")}

ModelTypes == {"LLM", "Vision", "Image", "Audio", "Embedding", "Reranker", "Other"}

InitConvert ==
    /\ IdleServer
    /\ models = <<>> /\ original_content = <<>> /\ updated_content = None
    /\ litellm_data = {} /\ missing_models = None
    /\ fw_model \in {Some(FireworksModel(name, model_id, None, None, price, ctx, type)) :
                        name \in ModelNames, model_id \in ModelIds,
                        price \in {None, Some(20)}, ctx \in {None, Some(8192)},
                        type \in ModelTypes}
    /\ litellm_format = None
    /\ NoPricing /\ still_missing = None

\* litellm_format = fw_model.to_litellm_format()
ConvertCall ==
    /\ litellm_format = None
    /\ litellm_format' = Some(ToLitellmFormat(fw_model[1]))
    /\ UNCHANGED <<serverVars, models, original_content, updated_content, litellm_data,
                   missing_models, fw_model, pricing_input, pricing, still_missing>>

SpecConvert == InitConvert /\ [][ConvertCall]_vars

\* Pricing fragments: a price part and a context part, in either order, with
\* a separator between them. Each part is listed with the values that are
\* written in it: [n, k] is the decimal n / 10^k.
Dec(n, k) == Some([n |-> n, k |-> k])

PricePart(text, input_cost, output_cost, unified_cost) ==
    [text |-> text, input_cost |-> input_cost, output_cost |-> output_cost,
     unified_cost |-> unified_cost]

DualText(sep) == Chars("$0.45/M Input ") \o <<sep>> \o Chars(" $1.8/M Output")

PriceParts ==
    {PricePart(<<>>, None, None, None),
     PricePart(Chars("Free"), None, None, None),
     PricePart(Chars("$0.45/M Input $1.8/M Output"), None, None, None),
     PricePart(DualText(Bullet), Dec(45, 2), Dec(18, 1), None),
     PricePart(DualText(MiddleDot), Dec(45, 2), Dec(18, 1), None),
     PricePart(Chars("$0.9/MInput") \o <<Bullet>> \o Chars("$0.90/M Output")
                   \o Chars(" $0.2/M Tokens"),
               Dec(9, 1), Dec(9, 1), None),
     PricePart(Chars("$0.2/M Tokens ") \o DualText(Bullet),
               Dec(45, 2), Dec(18, 1), None),
     PricePart(Chars("$0.2/M Tokens"), None, None, Dec(2, 1)),
     PricePart(Chars("$1/M Token"), None, None, Dec(1, 0)),
     PricePart(Chars("$0.04/Image $0.2/M Tokens"), None, None, Dec(2, 1)),
     PricePart(Chars("$0.04/Image"), None, None, Dec(4, 2)),
     PricePart(Chars("$0.01/Step"), None, None, Dec(1, 2))}

ContextPart(text, context_window) == [text |-> text, context_window |-> context_window]

ContextParts ==
    {ContextPart(<<>>, None),
     ContextPart(Chars("8k Context"), None),
     ContextPart(Chars("262144 Context"), Some(262144)),
     ContextPart(Chars("4096Context"), Some(4096))}

Separators == {<<" ">>, <<" ", Bullet, " ">>}

Fragment(price, context, sep, price_first) ==
    IF price_first THEN price.text \o sep \o context.text
    ELSE context.text \o sep \o price.text

\* Fragments that hold an image and a step price, and a price that is no number.
OtherFragments ==
    {Chars("$0.01/Step $0.04/Image 4096 Context"), Chars("$1.2.3/M Tokens"),
     DualText(Bullet) \o Chars(" $./Image")}

PricingTexts ==
    {Fragment(p, c, sep, first) :
        p \in PriceParts, c \in ContextParts, sep \in Separators, first \in BOOLEAN}
    \cup OtherFragments

InitPricing ==
    /\ IdleServer
    /\ models = <<>> /\ original_content = <<>> /\ updated_content = None
    /\ litellm_data = {} /\ missing_models = None
    /\ fw_model = None /\ litellm_format = None
    /\ pricing_input \in PricingTexts
    /\ pricing = None /\ still_missing = None

\* pricing = parse_pricing(pricing_input)
ParsePricingCall ==
    /\ pricing = None
    /\ pricing' = Some(ParsePricing(pricing_input))
    /\ UNCHANGED <<serverVars, models, original_content, updated_content, litellm_data,
                   missing_models, fw_model, litellm_format, pricing_input,
                   still_missing>>

SpecPricing == InitPricing /\ [][ParsePricingCall]_vars

\* A run's diff and patch followed by the diff of a later run against the
\* patched document: the scraped list is the same and the reference is what
\* the patch produced.
PatchedDocs ==
    {DocText(<<>>, vals, <<"\n">>, <<>>) :
        vals \in UNION {[1..n -> {Chars("{}"), Chars("1.5e-07")}] : n \in 0..MaxEntries}}

InitRerun ==
    /\ IdleServer
    /\ models \in {l \in ListsUpTo(ModelPool, MaxModels) : DistinctIds(l)}
    /\ original_content \in PatchedDocs
    /\ litellm_data = JsonKeys(original_content)
    /\ missing_models = None /\ updated_content = None
    /\ NoConversion

\* if missing_models: updated_content = append_models_to_json(missing_models, raw_content)
PatchMissing ==
    /\ missing_models # None /\ missing_models[1] # <<>>
    /\ updated_content = None
    /\ updated_content' = Some(AppendModelsToJson(missing_models[1], original_content))
    /\ UNCHANGED <<serverVars, models, original_content, litellm_data, missing_models,
                   convVars>>

\* The later run: compare_models(models, json.loads(updated_content))
CompareAgain ==
    /\ updated_content # None /\ ~updated_content[1].raised
    /\ still_missing = None
    /\ still_missing' =
          Some(CompareModels(models, JsonKeys(updated_content[1].value)))
    /\ UNCHANGED <<serverVars, models, original_content, updated_content, litellm_data,
                   missing_models, fw_model, litellm_format, pricing_input, pricing>>

SpecRerun == InitRerun /\ [][CompareCall \/ PatchMissing \/ CompareAgain]_vars

-----------------------------------------------------------------------------
(* Properties of the diff and of the patch                                 *)

InScraped(l, m) == \E i \in 1..Len(l) : l[i] = m

\* C2: a scraped record whose identifier equals, after lower-casing and
\* trimming, the identifier part X of a reference key
\* "fireworks_ai/accounts/fireworks/models/X" is not reported missing.
C2_NormalizedIdentifierIsPresent ==
    missing_models # None =>
        \A key \in litellm_data : \A i \in 1..Len(models) :
            (/\ StartsWith(key, KeyPrefix)
             /\ Lower(Strip(models[i].model_id))
                    = Lower(Strip(SubSeq(key, Len(KeyPrefix) + 1, Len(key)))))
            => ~InScraped(missing_models[1], models[i])

\* C3: appending no records returns the original text unchanged and does not fail.
C3_AppendNothingIsNoOp ==
    (updated_content # None /\ models = <<>>)
        => updated_content[1] = Returned(original_content)

\* The number of top-level entries of a document.
EntryCount(doc) == Len(MemberKeys(doc, SkipWs(doc, SkipWs(doc, 1) + 1)))

\* The original text that precedes its final closing brace.
BeforeFinalBrace(doc) == SubSeq(doc, 1, RFind(doc, "}"))

\* C4: appending a non-empty list puts exactly one comma between the last
\* existing entry and the new entries when the document has entries, whatever
\* the type of the last value, none when it has no entry, and the returned
\* text parses.
C4_OneCommaIffEntriesAndParses ==
    (updated_content # None /\ models # <<>>) =>
        /\ ~updated_content[1].raised
        /\ JsonLoads(updated_content[1].value)
        /\ updated_content[1].value =
              RStrip(BeforeFinalBrace(original_content))
              \o (IF EntryCount(original_content) > 0 THEN <<",">> ELSE <<>>)
              \o NewEntriesStr(models) \o Chars("\n}")

\* C5 as stated: the returned text begins with all of the original text that
\* precedes the final closing brace, whitespace included.
C5_WholePrefixPreserved ==
    (updated_content # None /\ ~updated_content[1].raised) =>
        StartsWith(updated_content[1].value, BeforeFinalBrace(original_content))

\* C5 as amended: the returned text begins with the original text that
\* precedes the final closing brace less the whitespace that ends it, and the
\* rest of the returned text is the comma (if any), the new entries and the
\* closing brace.
C5_StrippedPrefixPreserved ==
    (updated_content # None /\ ~updated_content[1].raised) =>
        LET kept == RStrip(BeforeFinalBrace(original_content))
            out == updated_content[1].value
        IN /\ StartsWith(out, kept)
           /\ SubSeq(out, Len(kept) + 1, Len(out))
                 \in {NewEntriesStr(models) \o Chars("\n}"),
                      <<",">> \o NewEntriesStr(models) \o Chars("\n}")}

\* C5's case: records were appended to a document with whitespace before its
\* final brace, and the text was returned.
C5_Witness ==
    /\ updated_content # None /\ ~updated_content[1].raised
    /\ models # <<>>
    /\ BeforeFinalBrace(original_content) # RStrip(BeforeFinalBrace(original_content))
    /\ EntryCount(original_content) > 0

-----------------------------------------------------------------------------
(* create_pull_request (src/agent/github_pr.py): the GitHub calls in the   *)
(* order the code makes them; the call numbered failAt raises (0: none).   *)

\* What scrape_fireworks_models returns: records with distinct identifiers.
ScrapeLists == {<<>>, <<ModelPool[2]>>, <<ModelPool[1], ModelPool[2]>>}

\* Reference documents the fetch may return.
ServerDocs ==
    {DocText(<<>>, vals, <<"\n">>, <<"\n">>) :
        vals \in UNION {[1..n -> {Chars("{}"), Chars("1.5e-07")}] : n \in 0..1}}

FetchErrors == {"HTTPStatusError for raw.githubusercontent.com"}

\* fetch_litellm_raw: the raw text and the parsed document of one GET.
FetchLitellmRaw(raw) == <<raw, JsonKeys(raw)>>

\* compare_models and append_models_to_json on the inputs a run can meet, each
\* computed once.
Compared ==
    [scraped \in ScrapeLists, raw \in ServerDocs |->
        CompareModels(scraped, FetchLitellmRaw(raw)[2])]

Appended ==
    [missing \in {Compared[x] : x \in ScrapeLists \X ServerDocs}, raw \in ServerDocs |->
        AppendModelsToJson(missing, raw)]

GithubCalls ==
    <<"get_repo", "get_branch", "create_git_ref", "get_contents", "update_file",
      "create_pull">>

NoUpstream == [branches |-> 0, commits |-> 0, pulls |-> 0]

CreatePullRequest(missing, original_json_content, up, failAt) ==
    LET github_error == Raised("GithubException")
        branched == [up EXCEPT !.branches = @ + 1]
        appended == Appended[missing, original_json_content]
        committed == [branched EXCEPT !.commits = @ + 1]
        opened == [committed EXCEPT !.pulls = @ + 1]
    IN IF failAt \in {1, 2, 3}
       THEN [upstream |-> up, result |-> github_error, cause |-> "submit_error"]
       ELSE IF appended.raised
       THEN [upstream |-> branched, result |-> appended, cause |-> "patch_invalid"]
       ELSE IF failAt \in {4, 5}
       THEN [upstream |-> branched, result |-> github_error, cause |-> "submit_error"]
       ELSE IF failAt = 6
       THEN [upstream |-> committed, result |-> github_error, cause |-> "submit_error"]
       ELSE [upstream |-> opened, result |-> Returned(opened.pulls),
             cause |-> "pr_created"]

-----------------------------------------------------------------------------
(* The server (src/server.py). The event loop runs one coroutine at a time *)
(* and switches only at an await of network I/O, so each action below is   *)
(* the code between two such awaits. create_pull_request makes blocking    *)
(* calls: it is part of the step that the reference fetch resumes.         *)

MaxRequests == 1    \* concurrent /trigger requests
MaxTriggers == 1    \* /trigger requests the environment sends in all
MaxTime == 4        \* the clock stops here
Interval == 2       \* IntervalTrigger(hours=24), in clock ticks of 12 hours

Job == 0            \* the scheduler's job; 1..MaxRequests are HTTP requests
Tasks == 0..MaxRequests

\* The calls of its pipeline a run has made so far, in order.
PipelineCalls ==
    <<"scrape_fireworks_models", "fetch_litellm_raw", "compare_models",
      "create_pull_request">>

NoLocal == [start_time |-> None, scraped_models |-> <<>>, calls |-> <<>>]

RunResult(success, message, scraped, missing, pr_url, timestamp) ==
    [success |-> success, message |-> message, scraped_models |-> scraped,
     missing_models |-> missing, pr_url |-> pr_url, timestamp |-> timestamp]

\* What a finished call gave its caller. kind is "RunResult" (returned, HTTP 200
\* on /trigger) or "HTTPException"; accepted, start_time and cause record which
\* run it was and how it ended, ran what the run did: the calls it made and
\* the lengths of scraped_models and missing_models (None: never assigned).
Outcome(t, kind, status_code, result, accepted, start, cause, ran) ==
    [task |-> t, kind |-> kind, status_code |-> status_code, result |-> result,
     accepted |-> accepted, start_time |-> start, cause |-> cause, ran |-> ran]

Ran(calls, scraped, missing) ==
    [calls |-> calls, scraped |-> scraped, missing |-> missing]

NothingRan == Ran(<<>>, None, None)

\* os.environ as a run may find it.
Environs ==
    {{"FIRECRAWL_API_KEY", "GITHUB_TOKEN"}, {"GITHUB_TOKEN"}, {"FIRECRAWL_API_KEY"}}

\* The ValueError of the environment validation, if any.
ConfigError(environ) ==
    IF "FIRECRAWL_API_KEY" \notin environ THEN Some("FIRECRAWL_API_KEY not set")
    ELSE IF "GITHUB_TOKEN" \notin environ THEN Some("GITHUB_TOKEN not set")
    ELSE None

\* str(e) of what scrape_fireworks_models raises.
ScrapeErrors == {"HTTPStatusError for api.firecrawl.dev"}

\* if state.is_running: in run_agent and in trigger_agent
RunAgentSeesRunningNever == FALSE
RunAgentSeesRunning == is_running
TriggerSeesRunning == is_running

\* state.is_running once run_agent has left its try statement; raised tells
\* whether an exception ended the try block.
LockAfterRunOnReturnOnly(raised) == raised
LockAfterRun(raised) == FALSE

\* The rest of scheduled_run after `await run_agent()`.
AfterRunAgent(t) ==
    IF t = Job
    THEN /\ next_scheduled_run' = Some(now + Interval)
         /\ sched_done' = Some(now)
    ELSE UNCHANGED <<next_scheduled_run, sched_done>>

\* run_agent returns `result` from a run it accepted: the return statements
\* and the finally clause. snapshot: that return site stores state.last_run
\* and state.last_result.
Return(t, start, result, cause, raised, snapshot, up, ran) ==
    /\ is_running' = LockAfterRun(raised)
    /\ pc' = [pc EXCEPT ![t] = "idle"]
    /\ local' = [local EXCEPT ![t] = NoLocal]
    /\ IF snapshot
       THEN last_run' = Some(start) /\ last_result' = Some(result)
       ELSE UNCHANGED <<last_run, last_result>>
    /\ outcome' = Some(Outcome(t, "RunResult", 200, Some(result), TRUE, start, cause,
                                ran))
    /\ upstream' = up
    /\ AfterRunAgent(t)

\* except Exception as e: ... return result
Fail(t, start, e, cause, up, ran) ==
    Return(t, start, RunResult(FALSE, "Agent failed: " \o e, 0, 0, None, start),
           cause, TRUE, TRUE, up, ran)

\* run_agent from its call to its first await (or to its return).
RunAgent(t) ==
    IF RunAgentSeesRunning
    THEN /\ outcome' = Some(Outcome(t, "RunResult", 200,
                 Some(RunResult(FALSE, "Agent is already running", 0, 0, None, now)),
                 FALSE, now, "rejected", NothingRan))
         /\ UNCHANGED <<is_running, last_run, last_result, pc, local, upstream>>
         /\ AfterRunAgent(t)
    ELSE \E environ \in Environs :
            IF ConfigError(environ) # None
            THEN Fail(t, now, ConfigError(environ)[1], "config_error", upstream,
                      NothingRan)
            ELSE /\ is_running' = TRUE
                 /\ pc' = [pc EXCEPT ![t] = "scrape"]
                 /\ local' = [local EXCEPT ![t] =
                                 [start_time |-> Some(now), scraped_models |-> <<>>,
                                  calls |-> SubSeq(PipelineCalls, 1, 1)]]
                 /\ UNCHANGED <<last_run, last_result, outcome, upstream,
                                next_scheduled_run, sched_done>>

\* if not scraped_models:
NothingScrapedNever(scraped) == FALSE
NothingScraped(scraped) == scraped = <<>>

\* The scrape's response arrives: run_agent from there to the fetch's await.
ScrapeDone(t) ==
    /\ pc[t] = "scrape"
    /\ LET start == local[t].start_time[1]
           calls == local[t].calls
       IN \/ \E e \in ScrapeErrors :
                Fail(t, start, e, "scrape_error", upstream, Ran(calls, None, None))
          \/ \E scraped \in ScrapeLists :
                IF NothingScraped(scraped)
                THEN Return(t, start,
                            RunResult(TRUE, "No models scraped from Fireworks AI",
                                      0, 0, None, start),
                            "no_models", FALSE, FALSE, upstream,
                            Ran(calls, Some(Len(scraped)), None))
                ELSE /\ pc' = [pc EXCEPT ![t] = "fetch"]
                     /\ local' = [local EXCEPT ![t].scraped_models = scraped,
                                               ![t].calls = SubSeq(PipelineCalls, 1, 2)]
                     /\ UNCHANGED <<is_running, last_run, last_result, outcome,
                                    upstream, next_scheduled_run, sched_done>>
    /\ UNCHANGED <<now, next_fire, fired_at, budget, fnVars>>

\* The reference fetch's response arrives: run_agent from there to its return.
FetchDone(t) ==
    /\ pc[t] = "fetch"
    /\ LET start == local[t].start_time[1]
           scraped == local[t].scraped_models
           n == Some(Len(scraped))
       IN \/ \E e \in FetchErrors :
                Fail(t, start, e, "fetch_error", upstream,
                     Ran(local[t].calls, n, None))
          \/ \E raw \in ServerDocs :
              \E missing \in {Compared[scraped, raw]} :
                IF missing = <<>>
                THEN Return(t, start,
                            RunResult(TRUE,
                                      "All Fireworks models already exist in LiteLLM",
                                      Len(scraped), 0, None, start),
                            "no_missing", FALSE, TRUE, upstream,
                            Ran(SubSeq(PipelineCalls, 1, 3), n, Some(0)))
                ELSE \E failAt \in 0..Len(GithubCalls) :
                      \E pr \in {CreatePullRequest(missing, raw, upstream, failAt)} :
                       \E ran \in {Ran(PipelineCalls, n, Some(Len(missing)))} :
                         IF pr.result.raised
                         THEN Fail(t, start, pr.result.error, pr.cause, pr.upstream,
                                   ran)
                         ELSE Return(t, start,
                                     RunResult(TRUE,
                                               "Created PR with "
                                               \o ToString(Len(missing))
                                               \o " new models",
                                               Len(scraped), Len(missing),
                                               Some(pr.result.value), start),
                                     "pr_created", FALSE, TRUE, pr.upstream, ran)
    /\ UNCHANGED <<now, next_fire, fired_at, budget, fnVars>>

\* startup_event: the job is added and the scheduler started.
Startup ==
    /\ next_fire = None
    /\ next_fire' = Some(now + Interval)
    /\ next_scheduled_run' = Some(now + Interval)
    /\ UNCHANGED <<is_running, last_run, last_result, now, pc, local, outcome,
                   sched_done, fired_at, upstream, budget, fnVars>>

\* Time passes; the scheduler does not sleep past a fire time.
Tick ==
    /\ now < MaxTime
    /\ IF next_fire = None THEN TRUE ELSE now < next_fire[1]
    /\ now' = now + 1
    /\ UNCHANGED <<is_running, last_run, last_result, next_scheduled_run, next_fire,
                   pc, local, outcome, sched_done, fired_at, upstream, budget, fnVars>>

\* The interval trigger fires: the next fire time is one interval after this
\* one, and scheduled_run starts unless the job's previous instance still runs
\* (max_instances is 1).
ScheduledFire ==
    /\ next_fire # None /\ now = next_fire[1]
    /\ next_fire' = Some(now + Interval)
    /\ IF pc[Job] = "idle"
       THEN /\ fired_at' = Some([at |-> now, prev_done |-> sched_done])
            /\ RunAgent(Job)
       ELSE UNCHANGED <<fired_at, is_running, last_run, last_result, pc, local,
                        outcome, upstream, next_scheduled_run, sched_done>>
    /\ UNCHANGED <<now, budget, fnVars>>

\* POST /trigger: trigger_agent.
Trigger(t) ==
    /\ next_fire # None /\ pc[t] = "idle" /\ budget > 0
    /\ budget' = budget - 1
    /\ IF TriggerSeesRunning
       THEN /\ outcome' = Some(Outcome(t, "HTTPException", 409, None, FALSE, now,
                                       "rejected", NothingRan))
            /\ UNCHANGED <<is_running, last_run, last_result, pc, local, upstream,
                           next_scheduled_run, sched_done>>
       ELSE RunAgent(t)
    /\ UNCHANGED <<now, next_fire, fired_at, fnVars>>

Init ==
    /\ is_running = FALSE /\ last_run = None /\ last_result = None
    /\ next_scheduled_run = None
    /\ now = 0 /\ next_fire = None
    /\ pc = [t \in Tasks |-> "idle"]
    /\ local = [t \in Tasks |-> NoLocal]
    /\ outcome = None /\ sched_done = None /\ fired_at = None
    /\ upstream = NoUpstream
    /\ budget = MaxTriggers
    /\ models = <<>> /\ original_content = <<>> /\ updated_content = None
    /\ litellm_data = {} /\ missing_models = None
    /\ NoConversion

Next ==
    \/ Startup
    \/ Tick
    \/ ScheduledFire
    \/ \E t \in Tasks \ {Job} : Trigger(t)
    \/ \E t \in Tasks : ScrapeDone(t)
    \/ \E t \in Tasks : FetchDone(t)

Spec == Init /\ [][Next]_vars

-----------------------------------------------------------------------------
(* Properties of the server                                                *)

\* The tasks inside the scrape -> diff -> submit pipeline.
InPipeline == {t \in Tasks : pc[t] # "idle"}

\* A /trigger request or a firing of the job reaches the server in this step.
CallArrives == budget' # budget \/ fired_at' # fired_at

\* C1: at most one run is in progress at any time, and a call that arrives
\* while state.is_running is true is rejected: it starts no scrape, fetch or
\* submission and leaves the run in progress as it was.
C1_AtMostOneRun ==
    /\ [](Cardinality(InPipeline) <= 1 /\ (is_running <=> InPipeline # {}))
    /\ [][(is_running /\ CallArrives) =>
             /\ outcome' # None /\ outcome'[1].cause = "rejected"
             /\ ~outcome'[1].accepted
             /\ pc' = pc /\ local' = local /\ upstream' = upstream
             /\ is_running']_vars

\* C1's case: a call was rejected while a run is in progress.
C1_Witness ==
    /\ outcome # None /\ outcome[1].cause = "rejected"
    /\ InPipeline # {} /\ is_running

\* C6: a firing that starts scheduled_run comes no sooner than one interval
\* after the completion of the previous scheduled_run.
C6_FiresOneIntervalAfterCompletion ==
    (fired_at # None /\ fired_at[1].prev_done # None)
        => fired_at[1].at >= fired_at[1].prev_done[1] + Interval

\* The ways an exception ends a run.
ExceptionCauses ==
    {"config_error", "scrape_error", "fetch_error", "patch_invalid", "submit_error"}

\* C7: when no run is in the pipeline the run lock is free, whatever ended
\* the runs before; a run that an exception ended gave its caller a RunResult
\* with success false, not the exception; and the step that ends it starts
\* nothing again: its task leaves the pipeline and no other enters.
C7_RunEndsWithLockReleased ==
    /\ [](/\ InPipeline = {} => ~is_running
          /\ (outcome # None /\ outcome[1].cause \in ExceptionCauses) =>
                /\ outcome[1].kind = "RunResult"
                /\ outcome[1].result # None
                /\ ~outcome[1].result[1].success)
    /\ [][(outcome' # outcome /\ outcome'[1].cause \in ExceptionCauses) =>
             /\ InPipeline' = InPipeline \ {outcome'[1].task}
             /\ ~is_running']_vars

\* C7's case: an exception of the patch validation ended a run, and the lock
\* is free.
C7_Witness ==
    /\ outcome # None /\ outcome[1].cause = "patch_invalid"
    /\ ~is_running

\* C8: once an accepted run has finished, state.last_run and
\* state.last_result are that run's start time and result.
C8_SnapshotHoldsLastFinishedRun ==
    (outcome # None /\ outcome[1].accepted) =>
        /\ last_run = Some(outcome[1].start_time)
        /\ last_result = outcome[1].result

\* An outcome that reports an error: an HTTP error status, or a RunResult
\* with success false.
IsErrorOutcome(o) ==
    \/ o.kind = "HTTPException"
    \/ o.status_code >= 400
    \/ (IF o.result = None THEN FALSE ELSE ~o.result[1].success)

\* C9: a rejected trigger is given a non-error outcome.
C9_RejectionIsNotAnError ==
    (outcome # None /\ outcome[1].cause = "rejected") => ~IsErrorOutcome(outcome[1])

\* A run result without its free-text message and its time.
ResultKind(r) ==
    [success |-> r.success, scraped_models |-> r.scraped_models,
     missing_models |-> r.missing_models, pr_url |-> r.pr_url]

\* C10: the result of a run that the patch validation failed differs in kind
\* from the result of the run before it when a scrape or a reference fetch
\* failed that one.
C10_PatchFailureIsItsOwnKind ==
    [][(/\ outcome # None /\ outcome' # None
        /\ outcome[1].cause \in {"scrape_error", "fetch_error"}
        /\ outcome'[1].cause = "patch_invalid")
       => ResultKind(outcome'[1].result[1]) # ResultKind(outcome[1].result[1])]_vars

\* l is the first n entries of PipelineCalls for some n: the calls were made
\* in the pipeline's order, none twice and none skipped.
InPipelineOrder(l) == Len(l) <= Len(PipelineCalls) /\ l = SubSeq(PipelineCalls, 1, Len(l))

Called(l, fn) == \E i \in 1..Len(l) : l[i] = fn

\* C11: a run makes its calls in the order scrape, fetch, compare, submit,
\* each at most once; the fetch is awaited only with a non-empty scraped list
\* in hand; create_pull_request is called only when compare_models returned a
\* non-empty list, and nothing upstream changes in a step that does not call
\* it; a scrape of zero records ends the run with a successful result of zero
\* scraped and zero missing models and no PR, after the scrape call alone.
C11_SequentialAndConditional ==
    /\ [](/\ \A t \in Tasks :
                /\ InPipelineOrder(local[t].calls)
                /\ pc[t] = "scrape" => local[t].calls = SubSeq(PipelineCalls, 1, 1)
                /\ pc[t] = "fetch" =>
                      /\ local[t].calls = SubSeq(PipelineCalls, 1, 2)
                      /\ local[t].scraped_models # <<>>
          /\ outcome # None =>
                LET ran == outcome[1].ran
                IN /\ InPipelineOrder(ran.calls)
                   /\ Called(ran.calls, "fetch_litellm_raw") =>
                         (ran.scraped # None /\ ran.scraped[1] > 0)
                   /\ Called(ran.calls, "create_pull_request") =>
                         (ran.missing # None /\ ran.missing[1] > 0)
                   /\ ran.scraped = Some(0) =>
                         /\ ran.calls = SubSeq(PipelineCalls, 1, 1)
                         /\ outcome[1].result =
                               Some(RunResult(TRUE,
                                              "No models scraped from Fireworks AI",
                                              0, 0, None, outcome[1].start_time)))
    /\ [][upstream' # upstream =>
             (outcome' # None /\ Called(outcome'[1].ran.calls, "create_pull_request"))]_vars

\* C11's cases: a run that scraped nothing has ended, and a run has called
\* create_pull_request.
C11_Witness ==
    /\ outcome # None /\ outcome[1].ran.scraped = Some(0)
    /\ upstream.pulls > 0

-----------------------------------------------------------------------------
(* Properties of the conversion                                            *)

\* The lower-cased name or identifier of the record holds the keyword.
HasKeyword(self, word) ==
    Contains(Lower(self.name), Chars(word)) \/ Contains(Lower(self.model_id), Chars(word))

\* C12 as stated: a converted record whose name or identifier holds "embed"
\* has mode "embedding", whatever its category label and other keywords.
C12_EmbedAlwaysEmbedding ==
    (litellm_format # None /\ HasKeyword(fw_model[1], "embed"))
        => litellm_format[1].mode = "embedding"

\* C12 amended: a converted record whose name or identifier holds "embed"
\* has mode "rerank" if its name or identifier holds "rerank", and mode
\* "embedding" otherwise, whatever its category label and whether or not it
\* holds a speech keyword.
C12_EmbedUnlessRerank ==
    (litellm_format # None /\ HasKeyword(fw_model[1], "embed"))
        => litellm_format[1].mode =
              (IF HasKeyword(fw_model[1], "rerank") THEN "rerank" ELSE "embedding")

\* C12's case: a record labelled as audio with both an embedding and a
\* speech keyword was converted to mode "embedding".
C12_Witness ==
    /\ litellm_format # None /\ litellm_format[1].mode = "embedding"
    /\ fw_model[1].model_type = "Audio"
    /\ HasKeyword(fw_model[1], "embed") /\ HasKeyword(fw_model[1], "whisper")
    /\ ~HasKeyword(fw_model[1], "rerank")

\* C13: a result of parse_pricing never holds both the input/output pair and
\* the unified price, and holds the pair whole or not at all; on a fragment
\* made of a price part and a context part it is the values written in the
\* part of the highest priority (dual price, then per token, then per image
\* or step; nothing when no pattern matches) with the context length of the
\* context part, whichever price part stands next to it.
C13_FirstPatternWins ==
    (pricing # None /\ ~pricing[1].raised) =>
        LET r == pricing[1].value
        IN /\ (r.input_cost = None) = (r.output_cost = None)
           /\ r.input_cost # None => r.unified_cost = None
           /\ \A p \in PriceParts, c \in ContextParts, sep \in Separators,
                 first \in BOOLEAN :
                   pricing_input = Fragment(p, c, sep, first) =>
                       r = Pricing(p.input_cost, p.output_cost, p.unified_cost,
                                   c.context_window)

\* C13's case: a fragment that holds the dual-price and the per-token
\* pattern and a context length was parsed to the pair and that length.
C13_Witness ==
    /\ pricing # None /\ ~pricing[1].raised
    /\ SearchTokens(pricing_input) # 0
    /\ pricing[1].value.input_cost # None
    /\ pricing[1].value.context_window # None

-----------------------------------------------------------------------------
(* Properties of the diff against the patched document                     *)

\* C14: compare_models of the same scraped list against the document that
\* append_models_to_json produced for the missing records returns no record.
C14_PatchedDiffIsEmpty ==
    still_missing # None => still_missing[1] = <<>>

-----------------------------------------------------------------------------
(* Properties of the submission                                            *)

\* C15: a run that ends because append_models_to_json failed its validation
\* leaves the upstream repository as it was: no new branch, commit or pull
\* request.
C15_NothingUpstreamBeforeValidation ==
    [][\A t \in Tasks :
          (/\ pc[t] = "fetch" /\ pc'[t] = "idle"
           /\ outcome'[1].task = t /\ outcome'[1].cause = "patch_invalid")
          => upstream' = upstream]_vars

====
